---- MODULE Spec2Model ----
(***************************************************************************)
(* Model of tox's configuration sets (src/tox/config/sets.py): ConfigSet,  *)
(* CoreConfigSet and EnvConfigSet.  A ConfigSet keeps the ordered primary  *)
(* keys (_keys), the alias table (_alias), the definition table (_defined) *)
(* and the loader list (loaders).                                          *)
(***************************************************************************)
EXTENDS Integers, Sequences, FiniteSets, TLC

VARIABLES cls, keys, alias, defined, loaders, calls, ret,
          conf_work_dir, default_set_env_loader, set_env_default

\* conf.work_dir, EnvConfigSet.default_set_env_loader and the content of the
\* SetEnv object that is the default of set_env
confvars == <<conf_work_dir, default_set_env_loader, set_env_default>>

vars == <<cls, keys, alias, defined, loaders, calls, ret, conf_work_dir,
          default_set_env_loader, set_env_default>>

----------------------------------------------------------------------------
(* Bounds of the model *)

\* number of add_config/add_constant calls made after construction
MaxCalls == 2
\* longest key list passed to add_config/add_constant by a caller
MaxAliases == 2
\* longest loader list
MaxLoaders == 2
\* number of add_config/add_constant calls in the runs that resolve values
MaxResolveCalls == 1
\* nesting depth of load at which the interpreter gives up (RecursionError)
MaxDepth == 3

----------------------------------------------------------------------------
(* Helpers *)

Range(s) == {s[i] : i \in 1..Len(s)}

SeqsUpTo(S, n) == UNION {[1..m -> S] : m \in 1..n}

\* Code point order of the strings of the model, as Python's sorted() sees them
KeyOrder ==
  <<"a", "config_file_path", "deps", "env_list", "envlist", "foo", "set_env",
    "setenv", "temp_dir", "tox_root", "toxinidir", "toxworkdir", "work_dir",
    "zzz">>

AllKeys == Range(KeyOrder)

Rank(k) == CHOOSE i \in 1..Len(KeyOrder) : KeyOrder[i] = k

RECURSIVE Sorted(_)
Sorted(S) ==
  IF S = {} THEN <<>>
  ELSE LET m == CHOOSE x \in S : \A y \in S : Rank(x) <= Rank(y)
       IN <<m>> \o Sorted(S \ {m})

----------------------------------------------------------------------------
(* Definitions (ConfigConstantDefinition / ConfigDynamicDefinition)        *)

\* ConfigConstantDefinition(keys_, desc, value)
ConfigConstantDefinition(ks, desc, value) ==
  [type |-> "constant", keys |-> ks, desc |-> desc, of_type |-> "-",
   value |-> value, post_process |-> "-", factory |-> "-"]

\* ConfigDynamicDefinition(keys_, desc, of_type, default, post_process, factory)
ConfigDynamicDefinition(ks, desc, of_type, default, post_process, factory) ==
  [type |-> "dynamic", keys |-> ks, desc |-> desc, of_type |-> of_type,
   value |-> default, post_process |-> post_process, factory |-> factory]

\* no definition (the value of a lookup that found nothing)
NoDef ==
  [type |-> "none", keys |-> <<>>, desc |-> "-", of_type |-> "-",
   value |-> "-", post_process |-> "-", factory |-> "-"]

\* Equality of two definitions: same variant and same constructor arguments
DefEq(d1, d2) ==
  /\ d1.type = d2.type
  /\ d1.keys = d2.keys
  /\ d1.desc = d2.desc
  /\ d1.of_type = d2.of_type
  /\ d1.value = d2.value
  /\ d1.post_process = d2.post_process

----------------------------------------------------------------------------
(* Values: paths are sequences of components, a SetEnv is a mapping        *)

NoPath == <<>>

EmptyMap == [n \in {} |-> "-"]

NoVal == [kind |-> "none", s |-> "-", path |-> NoPath, env |-> EmptyMap]

StrVal(x) == [NoVal EXCEPT !.kind = "str", !.s = x]

PathVal(p) == [NoVal EXCEPT !.kind = "path", !.path = p]

EnvListVal(l) == [NoVal EXCEPT !.kind = "envlist", !.path = l]

SetEnvVal(m) == [NoVal EXCEPT !.kind = "setenv", !.env = m]

\* CoreConfigSet._root and CoreConfigSet._src_path
Root == <<"/proj">>

SrcPath == <<"/proj", "tox.ini">>

\* the working directory override of the configuration object, when set
WorkDirOverride == <<"/wd">>

----------------------------------------------------------------------------
(* Registration *)

\* _make_keys: a single string becomes a one element sequence
MakeKeys(k) == IF k.single THEN <<k.items[1]>> ELSE k.items

\* ConfigSet._on_duplicate_conf / CoreConfigSet._on_duplicate_conf:
\* TRUE when the call raises ValueError
OnDuplicateConfBase(dfd, key, definition) ==
  LET earlier == dfd[key] IN ~DefEq(definition, earlier)

\* variant: the core set keeps the conflict check of the base class
OnDuplicateConfCoreCompares(dfd, key, definition) ==
  LET earlier == dfd[key] IN ~DefEq(definition, earlier)

OnDuplicateConfCore(dfd, key, definition) == FALSE

OnDuplicateConf(c, dfd, key, definition) ==
  IF c = "core" THEN OnDuplicateConfCore(dfd, key, definition)
  ELSE OnDuplicateConfBase(dfd, key, definition)

\* variant: the duplicate test looks at the primary keys only
AddConfChecksPrimaryKeys(c, st, ks, definition) ==
  LET key == ks[1] IN
  IF key \in Range(st.keys)
  THEN [keys |-> st.keys, alias |-> st.alias, defined |-> st.defined,
        outcome |-> IF OnDuplicateConf(c, st.defined, key, definition)
                    THEN "ValueError" ELSE "noop"]
  ELSE [keys |-> Append(st.keys, key),
        alias |-> [k \in DOMAIN st.alias \cup Range(ks) |->
                     IF k \in Range(ks) THEN key ELSE st.alias[k]],
        defined |-> [k \in DOMAIN st.defined \cup Range(ks) |->
                       IF k \in Range(ks) THEN definition ELSE st.defined[k]],
        outcome |-> "registered"]

\* variant: a silent duplicate call still adds the aliases the set lacks
AddConfAliasesOnDuplicate(c, st, ks, definition) ==
  LET key == ks[1] IN
  IF key \in DOMAIN st.defined
  THEN IF OnDuplicateConf(c, st.defined, key, definition)
       THEN [keys |-> st.keys, alias |-> st.alias, defined |-> st.defined,
             outcome |-> "ValueError"]
       ELSE [keys |-> st.keys,
             alias |-> [k \in DOMAIN st.alias \cup Range(ks) |->
                          IF k \in DOMAIN st.alias THEN st.alias[k] ELSE key],
             defined |-> [k \in DOMAIN st.defined \cup Range(ks) |->
                            IF k \in DOMAIN st.defined THEN st.defined[k]
                            ELSE st.defined[key]],
             outcome |-> "noop"]
  ELSE [keys |-> Append(st.keys, key),
        alias |-> [k \in DOMAIN st.alias \cup Range(ks) |->
                     IF k \in Range(ks) THEN key ELSE st.alias[k]],
        defined |-> [k \in DOMAIN st.defined \cup Range(ks) |->
                       IF k \in Range(ks) THEN definition ELSE st.defined[k]],
        outcome |-> "registered"]

\* variant: only the primary key gets an entry in the definition table
AddConfDefinesPrimaryOnly(c, st, ks, definition) ==
  LET key == ks[1] IN
  IF key \in DOMAIN st.defined
  THEN [keys |-> st.keys, alias |-> st.alias, defined |-> st.defined,
        outcome |-> IF OnDuplicateConf(c, st.defined, key, definition)
                    THEN "ValueError" ELSE "noop"]
  ELSE [keys |-> Append(st.keys, key),
        alias |-> [k \in DOMAIN st.alias \cup Range(ks) |->
                     IF k \in Range(ks) THEN key ELSE st.alias[k]],
        defined |-> [k \in DOMAIN st.defined \cup {key} |->
                       IF k = key THEN definition ELSE st.defined[k]],
        outcome |-> "registered"]

\* variant: the alias table is filled before the duplicate test
AddConfAliasBeforeCheck(c, st, ks, definition) ==
  LET key == ks[1]
      als == [k \in DOMAIN st.alias \cup Range(ks) |->
                IF k \in Range(ks) THEN key ELSE st.alias[k]]
  IN
  IF key \in DOMAIN st.defined
  THEN [keys |-> st.keys, alias |-> als, defined |-> st.defined,
        outcome |-> IF OnDuplicateConf(c, st.defined, key, definition)
                    THEN "ValueError" ELSE "noop"]
  ELSE [keys |-> Append(st.keys, key),
        alias |-> als,
        defined |-> [k \in DOMAIN st.defined \cup Range(ks) |->
                       IF k \in Range(ks) THEN definition ELSE st.defined[k]],
        outcome |-> "registered"]

\* variant: the alias table gets the further keys only, not the primary key
AddConfAliasSkipsPrimary(c, st, ks, definition) ==
  LET key == ks[1]
      rest == {ks[i] : i \in 2..Len(ks)}
  IN
  IF key \in DOMAIN st.defined
  THEN [keys |-> st.keys, alias |-> st.alias, defined |-> st.defined,
        outcome |-> IF OnDuplicateConf(c, st.defined, key, definition)
                    THEN "ValueError" ELSE "noop"]
  ELSE [keys |-> Append(st.keys, key),
        alias |-> [k \in DOMAIN st.alias \cup rest |->
                     IF k \in rest THEN key ELSE st.alias[k]],
        defined |-> [k \in DOMAIN st.defined \cup Range(ks) |->
                       IF k \in Range(ks) THEN definition ELSE st.defined[k]],
        outcome |-> "registered"]

\* ConfigSet._add_conf on the registry state st = [keys, alias, defined]:
\* the state after the call and whether it raised
AddConf(c, st, ks, definition) ==
  LET key == ks[1] IN
  IF key \in DOMAIN st.defined
  THEN [keys |-> st.keys, alias |-> st.alias, defined |-> st.defined,
        outcome |-> IF OnDuplicateConf(c, st.defined, key, definition)
                    THEN "ValueError" ELSE "noop"]
  ELSE [keys |-> Append(st.keys, key),
        alias |-> [k \in DOMAIN st.alias \cup Range(ks) |->
                     IF k \in Range(ks) THEN key ELSE st.alias[k]],
        defined |-> [k \in DOMAIN st.defined \cup Range(ks) |->
                       IF k \in Range(ks) THEN definition ELSE st.defined[k]],
        outcome |-> "registered"]

\* variant: temp_dir is declared before work_dir
CoreDeclsTempDirFirst ==
  << ConfigConstantDefinition(<<"config_file_path">>,
        "path to the configuration file", "src_path"),
     ConfigDynamicDefinition(<<"tox_root", "toxinidir">>,
        "the root directory (where the configuration file is found)",
        "Path", "root", "None", "None"),
     ConfigDynamicDefinition(<<"temp_dir">>,
        "temporary directory cleaned at start", "Path", "temp_dir_default",
        "None", "None"),
     ConfigDynamicDefinition(<<"work_dir", "toxworkdir">>,
        "working directory", "Path", "work_dir_builder", "None", "None"),
     ConfigDynamicDefinition(<<"env_list", "envlist">>,
        "define environments to automatically run", "EnvList", "EnvList([])",
        "None", "None") >>

\* CoreConfigSet.register_config: the declarations it makes, in order
CoreDecls ==
  << ConfigConstantDefinition(<<"config_file_path">>,
        "path to the configuration file", "src_path"),
     ConfigDynamicDefinition(<<"tox_root", "toxinidir">>,
        "the root directory (where the configuration file is found)",
        "Path", "root", "None", "None"),
     ConfigDynamicDefinition(<<"work_dir", "toxworkdir">>,
        "working directory", "Path", "work_dir_builder", "None", "None"),
     ConfigDynamicDefinition(<<"temp_dir">>,
        "temporary directory cleaned at start", "Path", "temp_dir_default",
        "None", "None"),
     ConfigDynamicDefinition(<<"env_list", "envlist">>,
        "define environments to automatically run", "EnvList", "EnvList([])",
        "None", "None") >>

\* EnvConfigSet.register_config: the declaration it makes
EnvDecls ==
  << ConfigDynamicDefinition(<<"set_env", "setenv">>,
        "environment variables to set when running commands in the tox environment",
        "SetEnv", "SetEnv('')", "set_env_post_process", "set_env_factory") >>

RegisterDecls(c) == IF c = "core" THEN CoreDecls ELSE EnvDecls

EmptyFn == [k \in {} |-> NoDef]

EmptySet == [keys |-> <<>>, alias |-> EmptyFn, defined |-> EmptyFn,
             outcome |-> "noop"]

\* the registry after the first n declarations of register_config
RECURSIVE RegisterConfig(_, _)
RegisterConfig(c, n) ==
  IF n = 0 THEN EmptySet
  ELSE AddConf(c, RegisterConfig(c, n - 1), RegisterDecls(c)[n].keys,
               RegisterDecls(c)[n])

\* the log entry of a registration call: the keys passed, the variant of the
\* definition and what became of the call
Call(ks, definition, outcome) ==
  [keys |-> ks, type |-> definition.type, outcome |-> outcome]

RECURSIVE RegisterCalls(_, _)
RegisterCalls(c, n) ==
  IF n = 0 THEN <<>>
  ELSE Append(RegisterCalls(c, n - 1),
              Call(RegisterDecls(c)[n].keys, RegisterDecls(c)[n],
                   AddConf(c, RegisterConfig(c, n - 1),
                           RegisterDecls(c)[n].keys, RegisterDecls(c)[n]).outcome))

NoRet == [op |-> "none", arg |-> "-", status |-> "-", val |-> "-",
          list |-> <<>>, flag |-> FALSE, def |-> NoDef, value |-> NoVal,
          chain |-> <<>>, trace |-> <<>>]

\* ConfigSet.__init__ (with CoreConfigSet.__init__ / EnvConfigSet.__init__)
Construct ==
  /\ cls \in {"core", "env"}
  /\ LET st == RegisterConfig(cls, Len(RegisterDecls(cls))) IN
       /\ keys = st.keys
       /\ alias = st.alias
       /\ defined = st.defined
  /\ loaders = <<>>
  /\ calls = RegisterCalls(cls, Len(RegisterDecls(cls)))
  /\ ret = NoRet
  \* self.default_set_env_loader = lambda: {} ; default=SetEnv("", ...)
  /\ default_set_env_loader = EmptyMap
  /\ set_env_default = EmptyMap

\* a set built for a configuration without working directory override
Init ==
  /\ Construct
  /\ conf_work_dir = NoPath

\* a set built for a configuration with or without the override
InitResolve ==
  /\ Construct
  /\ conf_work_dir \in {NoPath} \cup (IF cls = "core" THEN {WorkDirOverride} ELSE {})

----------------------------------------------------------------------------
(* Inputs of the callers *)

CallKeys == {"a", "tox_root"}

Values == {"v1", "v2"}

\* key lists without a repeated key, of at most MaxAliases keys
KeyLists ==
  {ks \in SeqsUpTo(CallKeys, MaxAliases) :
     \A i, j \in 1..Len(ks) : ks[i] = ks[j] => i = j}

\* the keys argument: one string, or a sequence of strings
KeyInputs ==
  [single : {TRUE}, items : [1..1 -> CallKeys]]
    \cup [single : {FALSE}, items : KeyLists]

\* the declaration of register_config that setup code declares again
Redeclared(c) == IF c = "core" THEN CoreDecls[2] ELSE EnvDecls[1]

NumExternal == Len(calls) - Len(RegisterDecls(cls))

State == [keys |-> keys, alias |-> alias, defined |-> defined]

Register(ks, definition) ==
  LET r == AddConf(cls, State, ks, definition) IN
    /\ keys' = r.keys
    /\ alias' = r.alias
    /\ defined' = r.defined
    /\ calls' = Append(calls, Call(ks, definition, r.outcome))
    \* ret.def is the definition the call built (returned unless it raises)
    /\ ret' = [NoRet EXCEPT !.op = "add", !.status = r.outcome,
                            !.def = definition]
    /\ UNCHANGED <<cls, loaders>>
    /\ UNCHANGED confvars

\* ConfigSet.add_config
AddConfig ==
  /\ NumExternal < MaxCalls
  /\ \/ \E k \in KeyInputs :
          Register(MakeKeys(k),
                   ConfigDynamicDefinition(MakeKeys(k), "desc", "str", "v1",
                                           "None", "None"))
     \/ Register(MakeKeys([single |-> FALSE, items |-> Redeclared(cls).keys]),
                 Redeclared(cls))

\* ConfigSet.add_constant
AddConstant ==
  /\ NumExternal < MaxCalls
  /\ \E k \in KeyInputs, v \in Values :
       Register(MakeKeys(k), ConfigConstantDefinition(MakeKeys(k), "desc", v))

----------------------------------------------------------------------------
(* Loaders: the configuration sources handed to the set by the setup code  *)

NoLoader == "None"

LoaderPool == {"L1", "L2", "L3"}

\* Loader.parent: L2 inherits from L1
LoaderParent(l) == IF l = "L2" THEN "L1" ELSE NoLoader

\* Loader.found_keys()
FoundKeys(l) ==
  CASE l = "L1" -> {"deps", "tox_root"}
    [] l = "L2" -> {"foo", "toxinidir", "a"}
    [] l = "L3" -> {"deps", "setenv", "zzz"}

\* self.loaders.append(loader), done by the code that sets the set up; a
\* loader is appended once
AppendLoader ==
  /\ Len(loaders) < MaxLoaders
  /\ \E l \in LoaderPool \ Range(loaders) : loaders' = Append(loaders, l)
  /\ ret' = [NoRet EXCEPT !.op = "append_loader"]
  /\ UNCHANGED <<cls, keys, alias, defined, calls>>
  /\ UNCHANGED confvars

----------------------------------------------------------------------------
(* Queries *)

QueryKeys == {"a", "toxinidir"}

\* ConfigSet.name (the section's name) and ConfigSet.env_name
Name == IF cls = "core" THEN "tox" ELSE "testenv:py39"

EnvName == IF cls = "core" THEN "None" ELSE "py39"

\* self._defined[item] / self._alias[key]: the lookup raises KeyError
HasDefined(dfd, item) == item \in DOMAIN dfd

HasAlias(als, item) == item \in DOMAIN als

\* what a resolution reads: the tables, the loaders and the configuration
Env ==
  [defined |-> defined, loaders |-> loaders, work_dir |-> conf_work_dir,
   set_env_default |-> set_env_default,
   default_set_env_loader |-> default_set_env_loader,
   name |-> Name, env_name |-> EnvName]

\* the first raw value the loaders have for one of the keys, keys first
RECURSIVE FirstRaw(_, _, _, _)
FirstRaw(ks, lds, i, j) ==
  IF i > Len(ks) THEN <<>>
  ELSE IF j > Len(lds) THEN FirstRaw(ks, lds, i + 1, 1)
  ELSE IF ks[i] \in FoundKeys(lds[j]) THEN <<"raw", lds[j], ks[i]>>
  ELSE FirstRaw(ks, lds, i, j + 1)

\* the set_env text a loader holds
RawSetEnv(l) == "A" :> "explicit"

\* the raw value of key k in loader l, converted to of_type (set_env_factory
\* builds a SetEnv from the text)
Convert(of_type, l, k) ==
  CASE of_type = "Path" -> PathVal(<<l, k>>)
    [] of_type = "EnvList" -> EnvListVal(<<l, k>>)
    [] of_type = "SetEnv" -> SetEnvVal(RawSetEnv(l))
    [] OTHER -> [StrVal(k) EXCEPT !.path = <<l>>]

\* SetEnv.update_if_not_present: the entries of m whose name v lacks are added
UpdateIfNotPresent(v, m) ==
  [n \in DOMAIN v \cup DOMAIN m |-> IF n \in DOMAIN v THEN v[n] ELSE m[n]]

\* variant: the mapping of the loader in place at construction is merged
SetEnvPostProcessAtConstruction(values, loader) ==
  SetEnvVal(UpdateIfNotPresent(values.env, EmptyMap))

\* set_env_post_process: loader is what self.default_set_env_loader() returns
\* when the value is post-processed
SetEnvPostProcess(values, loader) ==
  SetEnvVal(UpdateIfNotPresent(values.env, loader))

\* ConfigLoadArgs(chain, name, env_name), with the definition invoked, the
\* loaders and the configuration handed to it
Invocation(S, item, chain, depth) ==
  [item |-> item, keys |-> S.defined[item].keys, chain |-> chain,
   name |-> S.name, env_name |-> S.env_name, loaders |-> S.loaders,
   work_dir |-> S.work_dir, depth |-> depth]

\* variant: the default of tox_root is computed from work_dir
DefaultReadsFromWorkDir(S, default) ==
  CASE default = "work_dir_builder" ->
         IF S.work_dir # NoPath THEN "-" ELSE "tox_root"
    [] default = "temp_dir_default" -> "tox_root"
    [] default = "root" -> "work_dir"
    [] OTHER -> "-"

\* the key a default reads with self[...]: work_dir_builder reads tox_root
\* unless conf.work_dir is set, the default of temp_dir reads tox_root
DefaultReads(S, default) ==
  CASE default = "work_dir_builder" ->
         IF S.work_dir # NoPath THEN "-" ELSE "tox_root"
    [] default = "temp_dir_default" -> "tox_root"
    [] OTHER -> "-"

\* variant: work_dir_builder always starts from the root it read
DefaultOfIgnoresOverride(S, default, nested) ==
  CASE default = "root" -> PathVal(Root)
    [] default = "work_dir_builder" -> PathVal(nested \o <<".tox", "4">>)
    [] default = "temp_dir_default" -> PathVal(nested \o <<".temp">>)
    [] default = "EnvList([])" -> EnvListVal(<<>>)
    [] default = "SetEnv('')" -> SetEnvVal(S.set_env_default)
    [] OTHER -> StrVal(default)

\* the value a default makes of the key it read (nested is the path read)
DefaultOf(S, default, nested) ==
  CASE default = "root" -> PathVal(Root)
    [] default = "work_dir_builder" ->
         PathVal((IF S.work_dir # NoPath THEN S.work_dir ELSE nested)
                   \o <<".tox", "4">>)
    [] default = "temp_dir_default" -> PathVal(nested \o <<".temp">>)
    [] default = "EnvList([])" -> EnvListVal(<<>>)
    [] default = "SetEnv('')" -> SetEnvVal(S.set_env_default)
    [] OTHER -> StrVal(default)

\* the value of a constant definition
ConstantOf(value) == IF value = "src_path" THEN PathVal(SrcPath) ELSE StrVal(value)

Failed(status) ==
  [status |-> status, value |-> NoVal, trace |-> <<>>, changed |-> FALSE]

\* variant: load hands the definition a context without the chain
RECURSIVE LoadResultDropsChain(_, _, _, _)
LoadResultDropsChain(S, item, chain, depth) ==
  IF depth > MaxDepth THEN Failed("RecursionError")
  ELSE IF ~HasDefined(S.defined, item) THEN Failed("KeyError")
  ELSE
    LET d == S.defined[item]
        inv == Invocation(S, item, <<>>, depth)
        raw == FirstRaw(d.keys, S.loaders, 1, 1)
        reads == DefaultReads(S, d.value)
        nested == IF d.type = "dynamic" /\ raw = <<>> /\ reads # "-"
                  THEN LoadResultDropsChain(S, reads, <<>>, depth + 1)
                  ELSE [Failed("ok") EXCEPT !.value = PathVal(NoPath)]
        before == IF raw # <<>> THEN Convert(d.of_type, raw[2], raw[3])
                  ELSE DefaultOf(S, d.value, nested.value.path)
        after == IF d.post_process = "set_env_post_process"
                 THEN SetEnvPostProcess(before, S.default_set_env_loader)
                 ELSE before
    IN
      IF d.type = "constant"
      THEN [status |-> "ok", value |-> ConstantOf(d.value), trace |-> <<inv>>,
            changed |-> FALSE]
      ELSE IF nested.status # "ok"
      THEN [nested EXCEPT !.trace = <<inv>> \o nested.trace]
      ELSE IF nested.value.kind # "path"
      THEN [Failed("TypeError") EXCEPT !.trace = <<inv>> \o nested.trace]
      ELSE [status |-> "ok", value |-> after,
            trace |-> <<inv>> \o nested.trace,
            changed |-> (raw = <<>> /\ d.value = "SetEnv('')"
                           /\ d.post_process = "set_env_post_process")]

\* ConfigSet.load, down to the value: the definition is looked up and invoked;
\* a default that reads another key goes through self[...], that is load with
\* no chain.  The result has the status, the value, the invocations made in
\* order, and whether the default SetEnv object was updated in place.
RECURSIVE LoadResult(_, _, _, _)
LoadResult(S, item, chain, depth) ==
  IF depth > MaxDepth THEN Failed("RecursionError")
  ELSE IF ~HasDefined(S.defined, item) THEN Failed("KeyError")
  ELSE
    LET d == S.defined[item]
        inv == Invocation(S, item, chain, depth)
        raw == FirstRaw(d.keys, S.loaders, 1, 1)
        reads == DefaultReads(S, d.value)
        nested == IF d.type = "dynamic" /\ raw = <<>> /\ reads # "-"
                  THEN LoadResult(S, reads, <<>>, depth + 1)
                  ELSE [Failed("ok") EXCEPT !.value = PathVal(NoPath)]
        before == IF raw # <<>> THEN Convert(d.of_type, raw[2], raw[3])
                  ELSE DefaultOf(S, d.value, nested.value.path)
        after == IF d.post_process = "set_env_post_process"
                 THEN SetEnvPostProcess(before, S.default_set_env_loader)
                 ELSE before
    IN
      IF d.type = "constant"
      THEN [status |-> "ok", value |-> ConstantOf(d.value), trace |-> <<inv>>,
            changed |-> FALSE]
      ELSE IF nested.status # "ok"
      THEN [nested EXCEPT !.trace = <<inv>> \o nested.trace]
      ELSE IF nested.value.kind # "path"
      THEN [Failed("TypeError") EXCEPT !.trace = <<inv>> \o nested.trace]
      ELSE [status |-> "ok", value |-> after,
            trace |-> <<inv>> \o nested.trace,
            changed |-> (raw = <<>> /\ d.value = "SetEnv('')"
                           /\ d.post_process = "set_env_post_process")]

\* variant: a lookup of an unknown key leaves an empty entry behind
LoadCallSetsDefault(item, chain) ==
  LET r == LoadResult(Env, item, chain, 1) IN
    /\ ret' = IF HasDefined(defined, item)
              THEN [NoRet EXCEPT !.op = "load", !.arg = item,
                                 !.status = r.status,
                                 !.def = defined[item],
                                 !.value = r.value,
                                 !.chain = chain,
                                 !.trace = r.trace,
                                 !.val = Name]
              ELSE [NoRet EXCEPT !.op = "load", !.arg = item,
                                 !.chain = chain,
                                 !.status = "KeyError"]
    /\ set_env_default' = IF r.status = "ok" /\ r.changed THEN r.value.env
                          ELSE set_env_default
    /\ defined' = IF HasDefined(defined, item) THEN defined
                  ELSE [k \in DOMAIN defined \cup {item} |->
                          IF k = item THEN NoDef ELSE defined[k]]
    /\ UNCHANGED <<cls, keys, alias, loaders, calls, conf_work_dir,
                   default_set_env_loader>>

\* a call of load(item, chain) and what it leaves behind
LoadCall(item, chain) ==
  LET r == LoadResult(Env, item, chain, 1) IN
    /\ ret' = IF HasDefined(defined, item)
              THEN [NoRet EXCEPT !.op = "load", !.arg = item,
                                 !.status = r.status,
                                 !.def = defined[item],
                                 !.value = r.value,
                                 !.chain = chain,
                                 !.trace = r.trace,
                                 !.val = Name]
              ELSE [NoRet EXCEPT !.op = "load", !.arg = item,
                                 !.chain = chain,
                                 !.status = "KeyError"]
    /\ set_env_default' = IF r.status = "ok" /\ r.changed THEN r.value.env
                          ELSE set_env_default
    /\ UNCHANGED <<cls, keys, alias, defined, loaders, calls, conf_work_dir,
                   default_set_env_loader>>

\* ConfigSet.__getitem__: load without a chain
Load == \E item \in QueryKeys : LoadCall(item, <<>>)

\* ConfigSet.primary_key
PrimaryKeyOf(als, key) == als[key]

PrimaryKey ==
  \E key \in QueryKeys :
    /\ ret' = IF HasAlias(alias, key)
              THEN [NoRet EXCEPT !.op = "primary_key", !.arg = key,
                                 !.status = "ok",
                                 !.val = PrimaryKeyOf(alias, key)]
              ELSE [NoRet EXCEPT !.op = "primary_key", !.arg = key,
                                 !.status = "KeyError"]
    /\ UNCHANGED <<cls, keys, alias, defined, loaders, calls>>
    /\ UNCHANGED confvars

\* ConfigSet.__contains__
\* variant: membership is tested against the primary keys
ContainsPrimaryOnly(als, item) == item \in {als[k] : k \in DOMAIN als}

ContainsKey(als, item) == item \in DOMAIN als

Contains ==
  \E item \in QueryKeys :
    /\ ret' = [NoRet EXCEPT !.op = "contains", !.arg = item, !.status = "ok",
                            !.flag = ContainsKey(alias, item)]
    /\ UNCHANGED <<cls, keys, alias, defined, loaders, calls>>
    /\ UNCHANGED confvars

\* ConfigSet.__iter__
Iterate(ks) == ks

Iter ==
  /\ ret' = [NoRet EXCEPT !.op = "iter", !.status = "ok", !.list = Iterate(keys)]
  /\ UNCHANGED <<cls, keys, alias, defined, loaders, calls>>
  /\ UNCHANGED confvars

\* ConfigSet.unused
\* variant: only the primary keys are subtracted
UnusedKeysMinusPrimary(lds, dfd) ==
  LET parents == {LoaderParent(lds[i]) : i \in 1..Len(lds)} \ {NoLoader}
      found == UNION {FoundKeys(lds[i]) :
                        i \in {j \in 1..Len(lds) : lds[j] \notin parents}}
  IN Sorted(found \ {k \in DOMAIN dfd : dfd[k].keys[1] = k})

UnusedKeys(lds, dfd) ==
  LET parents == {LoaderParent(lds[i]) : i \in 1..Len(lds)} \ {NoLoader}
      found == UNION {FoundKeys(lds[i]) :
                        i \in {j \in 1..Len(lds) : lds[j] \notin parents}}
  IN Sorted(found \ DOMAIN dfd)

Unused ==
  /\ ret' = [NoRet EXCEPT !.op = "unused", !.status = "ok",
                          !.list = UnusedKeys(loaders, defined)]
  /\ UNCHANGED <<cls, keys, alias, defined, loaders, calls>>
  /\ UNCHANGED confvars

Next ==
  \/ AddConfig
  \/ AddConstant
  \/ AppendLoader
  \/ Load
  \/ PrimaryKey
  \/ Contains
  \/ Iter
  \/ Unused

Spec == Init /\ [][Next]_vars

----------------------------------------------------------------------------
(* Resolution: load with a chain, on every kind of key, with the            *)
(* configuration and the default set_env loader varying                    *)

ResolveKeys ==
  {"toxinidir", "toxworkdir", "temp_dir", "envlist", "setenv", "a"}

\* the chain argument of load: none, or the key a caller is resolving
Chains == {<<>>, <<"work_dir">>}

\* the mappings a default set_env loader returns
SetEnvLoaders ==
  {EmptyMap, "A" :> "d1", ("A" :> "d2") @@ ("B" :> "d2")}

\* ConfigSet.load
Resolve == \E item \in ResolveKeys, chain \in Chains : LoadCall(item, chain)

\* env_set.default_set_env_loader = ..., assigned by the code that owns the set
SetDefaultSetEnvLoader ==
  /\ cls = "env"
  /\ \E m \in SetEnvLoaders \ {default_set_env_loader} :
       default_set_env_loader' = m
  /\ ret' = [NoRet EXCEPT !.op = "set_loader"]
  /\ UNCHANGED <<cls, keys, alias, defined, loaders, calls, conf_work_dir,
                 set_env_default>>

NextResolve ==
  \/ (NumExternal < MaxResolveCalls /\ AddConfig)
  \/ (NumExternal < MaxResolveCalls /\ AddConstant)
  \/ AppendLoader
  \/ SetDefaultSetEnvLoader
  \/ Resolve

SpecResolve == InitResolve /\ [][NextResolve]_vars

----------------------------------------------------------------------------
(* What the log of registration calls says, independently of the tables *)

\* the strings passed as a key in any of the first n calls
RECURSIVE Passed(_, _)
Passed(log, n) ==
  IF n = 0 THEN {} ELSE Passed(log, n - 1) \cup Range(log[n].keys)

\* the strings passed in a first registration among the first n calls: a call
\* is a first registration when its primary key was not registered before it
RECURSIVE Known(_, _)
Known(log, n) ==
  IF n = 0 THEN {}
  ELSE LET before == Known(log, n - 1) IN
         IF log[n].keys[1] \in before THEN before
         ELSE before \cup Range(log[n].keys)

IsFirst(log, n) == log[n].keys[1] \notin Known(log, n - 1)

\* the primary keys of the first registrations among the first n calls, in order
RECURSIVE FirstOrder(_, _)
FirstOrder(log, n) ==
  IF n = 0 THEN <<>>
  ELSE LET before == FirstOrder(log, n - 1) IN
         IF IsFirst(log, n) THEN Append(before, log[n].keys[1])
         ELSE before

\* the strings registered so far, and the strings passed so far
Registered == Known(calls, Len(calls))

EverPassed == Passed(calls, Len(calls))

NoDuplicates(sq) == \A i, j \in 1..Len(sq) : sq[i] = sq[j] => i = j

External == {i \in 1..Len(calls) : i > Len(RegisterDecls(cls))}

LastCall == calls[Len(calls)]

----------------------------------------------------------------------------
(* C1 *)

\* C1: after any sequence of add_config/add_constant calls, iterating the set
\* yields the primary keys in the order of their first registration, each once
C1_IterateOrder ==
  /\ Iterate(keys) = FirstOrder(calls, Len(calls))
  /\ NoDuplicates(Iterate(keys))
  /\ ret.op = "iter" => ret.list = FirstOrder(calls, Len(calls))

\* an iteration after a registration with two aliases and a call that
\* registered nothing
C1_Witness ==
  /\ ret.op = "iter"
  /\ \E i \in External : calls[i].outcome = "registered" /\ Len(calls[i].keys) = 2
  /\ \E i \in External : calls[i].outcome # "registered"

----------------------------------------------------------------------------
(* C2 *)

\* C2: a call whose primary key is already a primary key raises exactly when
\* the set has the default policy and the definition differs from the
\* registered one; a core set never raises
C2_DuplicatePolicy ==
  [][(calls' # calls /\ calls'[Len(calls')].keys[1] \in Range(keys)) =>
       LET c == calls'[Len(calls')]
           d == ret'.def
       IN
         /\ ret'.op = "add" /\ d.keys = c.keys
         /\ (c.outcome = "ValueError") <=>
              (cls = "env" /\ ~DefEq(d, defined[c.keys[1]]))
         /\ cls = "core" => c.outcome = "noop"
         /\ DefEq(d, defined[c.keys[1]]) => c.outcome = "noop"]_vars

\* a rejected call: the primary key was a primary key already, default policy
C2_Witness ==
  /\ cls = "env"
  /\ ret.op = "add" /\ ret.status = "ValueError"
  /\ LastCall.keys[1] \in Range(keys)

----------------------------------------------------------------------------
(* C3 *)

\* C3 (as claimed): contains(s) is true exactly for the strings ever passed as
\* a key to add_config/add_constant, whatever became of the call
C3_ContainsEveryPassed ==
  /\ {s \in AllKeys : ContainsKey(alias, s)} = EverPassed
  /\ ret.op = "contains" => (ret.flag <=> ret.arg \in EverPassed)

\* C3 (amended): contains(s) is true exactly for the strings passed in a call
\* that was a first registration (its primary key was not registered before);
\* the keys of a call on an already registered primary key are not added
C3_ContainsRegistered ==
  /\ {s \in AllKeys : ContainsKey(alias, s)} = Registered
  /\ ret.op = "contains" => (ret.flag <=> ret.arg \in Registered)

\* contains() answered False for a string that was passed as an alias
C3_Witness ==
  /\ ret.op = "contains"
  /\ ret.arg \in EverPassed
  /\ ~ret.flag

----------------------------------------------------------------------------
(* C4 *)

\* C4: every key of the alias table has a definition, and it is the definition
\* of the primary key it maps to
C4_AliasSharesDefinition ==
  \A k \in DOMAIN alias :
    /\ k \in DOMAIN defined
    /\ alias[k] \in DOMAIN defined
    /\ defined[k] = defined[alias[k]]

----------------------------------------------------------------------------
(* C5 *)

\* C5: the primary keys are exactly the keys the alias table maps to
\* themselves, without duplicates
C5_PrimaryKeysSelfMapped ==
  /\ Range(keys) = {k \in DOMAIN alias : alias[k] = k}
  /\ NoDuplicates(keys)

----------------------------------------------------------------------------
(* C6 *)

\* C6: two aliases registered by the same declaration have the same primary
\* key ever after, and the same value when the definition is a constant
C6_AliasesAgree ==
  \A i \in 1..Len(calls) :
    calls[i].outcome = "registered" =>
      \A a1, a2 \in Range(calls[i].keys) :
        /\ a1 \in DOMAIN alias /\ a2 \in DOMAIN alias
        /\ PrimaryKeyOf(alias, a1) = PrimaryKeyOf(alias, a2)
        /\ calls[i].type = "constant" =>
             LoadResult(Env, a1, <<>>, 1).value = LoadResult(Env, a2, <<>>, 1).value

----------------------------------------------------------------------------
(* C7 *)

\* the loaders of the list that are not the parent of another loader of it
NonParents ==
  {l \in Range(loaders) :
     ~ \E m \in Range(loaders) : m # l /\ LoaderParent(m) = l}

\* C7: unused() returns, ascending and without duplicates, the keys found by
\* the non-parent loaders of the list that are no key of the definition table
C7_UnusedKeys ==
  ret.op = "unused" =>
    /\ \A i, j \in 1..Len(ret.list) : i < j => Rank(ret.list[i]) < Rank(ret.list[j])
    /\ Range(ret.list) = UNION {FoundKeys(l) : l \in NonParents} \ DOMAIN defined
    /\ \A k \in Range(ret.list) : ~ContainsKey(alias, k)

\* unused() ran with a loader and its parent in the list, returned two keys
\* and left out a found key that is a registered alias
C7_Witness ==
  /\ ret.op = "unused"
  /\ Range(loaders) = {"L1", "L2"}
  /\ Len(ret.list) >= 2
  /\ \E k \in FoundKeys("L2") : k \in DOMAIN alias /\ alias[k] # k

----------------------------------------------------------------------------
(* C8 *)

\* C8: a call on an already registered primary key that does not raise leaves
\* the primary keys, the alias table and the definition table as they were
C8_FirstRegistrationWins ==
  [][(/\ calls' # calls
      /\ calls'[Len(calls')].keys[1] \in Range(keys)
      /\ calls'[Len(calls')].outcome # "ValueError") =>
       /\ keys' = keys
       /\ alias' = alias
       /\ defined' = defined]_vars

\* a silent call on a registered primary key that named an alias the set does
\* not have
C8_Witness ==
  /\ ret.op = "add" /\ ret.status = "noop"
  /\ LastCall.keys[1] \in Range(keys)
  /\ \E a \in Range(LastCall.keys) : a \notin DOMAIN alias /\ a \notin DOMAIN defined

----------------------------------------------------------------------------
(* C9 *)

\* C9: load and primary_key raise KeyError exactly for the strings that were
\* never registered as a primary key or alias, and return nothing then
C9_UnknownKey ==
  /\ {k \in AllKeys : HasDefined(defined, k)} = Registered
  /\ {k \in AllKeys : HasAlias(alias, k)} = Registered
  /\ ret.op \in {"load", "primary_key"} =>
       /\ (ret.status = "KeyError") <=> ret.arg \notin Registered
       /\ ret.status = "KeyError" =>
            /\ ret.val = "-" /\ ret.list = <<>> /\ ret.def = NoDef
            /\ ret.value = NoVal
       /\ ret.status = "ok" => ret.val # "-"

\* load raised KeyError for a string that a silent call had passed as alias
C9_Witness ==
  /\ ret.op = "load" /\ ret.status = "KeyError"
  /\ ret.arg \in EverPassed

----------------------------------------------------------------------------
(* C10 *)

\* C10: a core set right after construction iterates config_file_path,
\* tox_root, work_dir, temp_dir, env_list and contains these and the aliases
\* toxinidir, toxworkdir, envlist, nothing else
C10_CoreAfterConstruction ==
  (cls = "core" /\ NumExternal = 0) =>
    /\ Iterate(keys) =
         <<"config_file_path", "tox_root", "work_dir", "temp_dir", "env_list">>
    /\ \A s \in AllKeys :
         ContainsKey(alias, s) <=>
           s \in {"config_file_path", "tox_root", "work_dir", "temp_dir",
                  "env_list", "toxinidir", "toxworkdir", "envlist"}
    /\ ret.op = "iter" => ret.list = Iterate(keys)
    /\ ret.op = "contains" =>
         (ret.flag <=> ret.arg \in {"config_file_path", "tox_root", "work_dir",
                                    "temp_dir", "env_list", "toxinidir",
                                    "toxworkdir", "envlist"})

\* a fresh core set answered contains() for an alias
C10_Witness ==
  /\ cls = "core" /\ NumExternal = 0
  /\ ret.op = "contains" /\ ret.arg = "toxinidir" /\ ret.flag

----------------------------------------------------------------------------
(* C13 *)

\* C13: once a string is a key of the definition table and of the alias
\* table, no later step removes it or changes what it maps to
C13_TablesOnlyGrow ==
  [][\A k \in DOMAIN alias :
       /\ k \in DOMAIN alias' /\ alias'[k] = alias[k]
       /\ k \in DOMAIN defined' /\ defined'[k] = defined[k]]_vars

----------------------------------------------------------------------------
(* C17 *)

\* C17: a registration rejected with ValueError leaves the primary keys, the
\* alias table and the definition table exactly as they were
C17_RejectedLeavesTables ==
  [][(calls' # calls /\ ret'.status = "ValueError") =>
       /\ keys' = keys
       /\ alias' = alias
       /\ defined' = defined
       /\ \A a \in Range(calls'[Len(calls')].keys) \ DOMAIN alias :
            a \notin DOMAIN alias' /\ a \notin DOMAIN defined']_vars

\* a rejected call that named an alias the set does not have
C17_Witness ==
  /\ ret.op = "add" /\ ret.status = "ValueError"
  /\ LastCall.outcome = "ValueError"
  /\ \E a \in Range(LastCall.keys) : a \notin DOMAIN alias

----------------------------------------------------------------------------
(* C18 *)

\* C18: the alias table and the definition table have the same keys, every
\* alias maps to a primary key, and contains(a) holds exactly when load(a)
\* and primary_key(a) find an entry
C18_SameKeySets ==
  /\ DOMAIN alias = DOMAIN defined
  /\ \A k \in DOMAIN alias : alias[k] \in Range(keys)
  /\ \A a \in AllKeys :
       ContainsKey(alias, a) <=> (HasDefined(defined, a) /\ HasAlias(alias, a))
  /\ ret.op \in {"load", "primary_key"} =>
       ((ret.status # "KeyError") <=> ContainsKey(alias, ret.arg))

\* a lookup succeeded for a primary key that a later call turned into an
\* alias of another key
C18_Witness ==
  /\ ret.op = "primary_key" /\ ret.status = "ok"
  /\ \E k \in Range(keys) : alias[k] # k

----------------------------------------------------------------------------
(* C11 *)

\* no loader holds a raw value for a key of the set
NoRawValues ==
  \A j \in 1..Len(loaders) : FoundKeys(loaders[j]) \cap DOMAIN defined = {}

\* the directory the work directory is built in: conf.work_dir if given,
\* else the root
WorkDirBase == IF conf_work_dir # NoPath THEN conf_work_dir ELSE Root

\* C11: on a core set with only its own declarations and no raw values,
\* load gives the root for tox_root, root/.temp for temp_dir, the empty list
\* for env_list and W/.tox/4 for work_dir, W being conf.work_dir if given and
\* the root otherwise; an alias resolves to the value of its primary key
C11_CoreDefaults ==
  (cls = "core" /\ NumExternal = 0 /\ NoRawValues) =>
    /\ (ret.op = "load" /\ ret.arg \in DOMAIN alias) =>
         /\ ret.status = "ok"
         /\ alias[ret.arg] = "tox_root" => ret.value = PathVal(Root)
         /\ alias[ret.arg] = "temp_dir" =>
              ret.value = PathVal(Root \o <<".temp">>)
         /\ alias[ret.arg] = "env_list" => ret.value = EnvListVal(<<>>)
         /\ alias[ret.arg] = "work_dir" =>
              ret.value = PathVal(WorkDirBase \o <<".tox", "4">>)
    /\ \A k \in DOMAIN alias :
         LoadResult(Env, k, <<>>, 1) = [LoadResult(Env, alias[k], <<>>, 1)
                                          EXCEPT !.trace[1].item = k]

\* the work directory was resolved under its alias with conf.work_dir given
\* and a loader present
C11_Witness ==
  /\ cls = "core" /\ NumExternal = 0 /\ NoRawValues /\ loaders # <<>>
  /\ conf_work_dir = WorkDirOverride
  /\ ret.op = "load" /\ ret.arg = "toxworkdir" /\ ret.status = "ok"
  /\ ret.value = PathVal(WorkDirOverride \o <<".tox", "4">>)

----------------------------------------------------------------------------
(* C12 *)

\* C12: in a resolution, every invocation made for a nested lookup has the
\* chain of the invocation that made it, extended with that invocation's key
C12_NestedChainExtended ==
  ret.op = "load" =>
    \A i \in 2..Len(ret.trace) :
      \/ ret.trace[i].chain =
           Append(ret.trace[i - 1].chain, ret.trace[i - 1].item)
      \/ ret.trace[i].chain =
           Append(ret.trace[i - 1].chain, ret.trace[i - 1].keys[1])

----------------------------------------------------------------------------
(* C14 *)

\* the operations that only ask
Queries == {"load", "primary_key", "contains", "iter", "unused"}

\* C14: load, contains, primary_key, iteration and unused leave the loaders,
\* the definitions, the primary keys and the alias table as they were,
\* whether they return or raise; unused called twice in a row returns the
\* same list
C14_QueriesChangeNothing ==
  [][/\ ret'.op \in Queries =>
          /\ loaders' = loaders /\ defined' = defined
          /\ keys' = keys /\ alias' = alias
     /\ (ret.op = "unused" /\ ret'.op = "unused") => ret'.list = ret.list]_vars

\* a lookup of a key the set lacks has raised, with declarations made and a
\* loader attached
C14_Witness ==
  /\ ret.op = "load" /\ ret.status = "KeyError"
  /\ NumExternal > 0 /\ loaders # <<>>

----------------------------------------------------------------------------
(* C15 *)

\* C15: every load of a key the set has invokes the definition found under
\* that key once, with the loaders as they are at the call and a context made
\* of the call's chain, the name and the env name; nothing is kept from an
\* earlier call
C15_EveryLoadInvokes ==
  ret.op = "load" =>
    IF HasDefined(defined, ret.arg)
    THEN /\ ret.trace # <<>>
         /\ ret.trace[1] = [item |-> ret.arg,
                            keys |-> defined[ret.arg].keys,
                            chain |-> ret.chain,
                            name |-> Name, env_name |-> EnvName,
                            loaders |-> loaders, work_dir |-> conf_work_dir,
                            depth |-> 1]
         /\ Cardinality({i \in 1..Len(ret.trace) :
                           ret.trace[i].depth = 1}) = 1
    ELSE ret.trace = <<>> /\ ret.status = "KeyError"

\* a load with a chain, after a loader was attached and a declaration made
C15_Witness ==
  /\ ret.op = "load" /\ ret.status = "ok" /\ ret.chain # <<>>
  /\ loaders # <<>> /\ NumExternal > 0
  /\ ret.trace[1].chain = ret.chain /\ ret.trace[1].loaders = loaders

----------------------------------------------------------------------------
(* C16 *)

\* the SetEnv that set_env_post_process receives: built from the loader's
\* text if a loader has the key, else the default object
SetEnvBefore ==
  IF FirstRaw(defined["set_env"].keys, loaders, 1, 1) # <<>>
  THEN RawSetEnv(FirstRaw(defined["set_env"].keys, loaders, 1, 1)[2])
  ELSE set_env_default

\* C16: a load of set_env on an env set returns the value with every name the
\* default set_env loader has and the value lacked added, and no name the
\* value had changed; the loader is the one assigned when load is called
C16_SetEnvDefaultsAdded ==
  [][(cls = "env" /\ ret'.op = "load" /\ ret'.status = "ok"
        /\ ret'.arg \in {"set_env", "setenv"}) =>
       /\ ret'.value.kind = "setenv"
       /\ DOMAIN ret'.value.env =
            DOMAIN SetEnvBefore \cup DOMAIN default_set_env_loader
       /\ \A n \in DOMAIN SetEnvBefore : ret'.value.env[n] = SetEnvBefore[n]
       /\ \A n \in DOMAIN default_set_env_loader \ DOMAIN SetEnvBefore :
            ret'.value.env[n] = default_set_env_loader[n]]_vars

\* set_env came from a loader that has A, and the default set_env loader
\* assigned after construction added B and left A
C16_Witness ==
  /\ cls = "env" /\ ret.op = "load" /\ ret.arg = "setenv" /\ ret.status = "ok"
  /\ default_set_env_loader = ("A" :> "d2") @@ ("B" :> "d2")
  /\ ret.value.env = ("A" :> "explicit") @@ ("B" :> "d2")

----------------------------------------------------------------------------
(* C19 *)

\* C19: on a core set just constructed every load returns, no key is looked
\* up twice within one load, and the only lookups nested in another are those
\* of tox_root by work_dir and temp_dir
C19_CoreDefaultsAcyclic ==
  (cls = "core" /\ NumExternal = 0 /\ loaders = <<>> /\ ret.op = "load") =>
    /\ ret.status \in {"ok", "KeyError"}
    /\ Len(ret.trace) <= 2
    /\ \A i, j \in 1..Len(ret.trace) :
         ret.trace[i].keys[1] = ret.trace[j].keys[1] => i = j
    /\ Len(ret.trace) = 2 =>
         /\ ret.trace[1].keys[1] \in {"work_dir", "temp_dir"}
         /\ ret.trace[2].keys[1] = "tox_root"

\* temp_dir was resolved on a core set just constructed, through tox_root
C19_Witness ==
  /\ cls = "core" /\ NumExternal = 0 /\ loaders = <<>>
  /\ ret.op = "load" /\ ret.arg = "temp_dir" /\ ret.status = "ok"
  /\ Len(ret.trace) = 2

====
